---------------------------- MODULE Spec2Model ----------------------------
(***************************************************************************)
(* spheremon (src/spheremon/main.c): a Redis liveness/activity watchdog.   *)
(*                                                                         *)
(* The process is four threads over shared globals:                        *)
(*   main            startup, barrier, key-liveness polling loop, joins    *)
(*   psubThreadFunc  activity tracker, PSUBSCRIBE "*", counts messages     *)
(*   cmdThreadFunc   command handler, SUBSCRIBE "spheremon:command"        *)
(*   watchThreadFunc self-report loop, publishes a smoothed message rate   *)
(* plus the SIGTERM handler.  The Redis server (delivered messages, key    *)
(* presence, success of connect/SET/PUBLISH) is the environment.           *)
(*                                                                         *)
(* Strings are TLA+ strings; C doubles holding the message rates are       *)
(* modelled as exact rationals with the common denominator 5 * Scale.      *)
(***************************************************************************)
EXTENDS Integers, Sequences, FiniteSets, TLC

\* ------------------------------------------------------------------ bounds
MaxKeys == 2      \* number of key names the store may hold
MaxMsg  == 1      \* messages delivered on the wildcard subscription
MaxIter == 3      \* iterations of the self-report loop

\* --------------------------------------------------------------- constants
SLEEP_TIME_SECONDS == 5
WORKER_TOTAL == 3

Keys    == 1..MaxKeys
Workers == {"psub", "cmd", "watch"}
Loops   == {"main", "watch", "psub", "cmd", "kill"}

\* Denominator of the modelled rates: a rate r is held as r * 5 * Scale, so
\* that MaxIter halvings of (count / 5.0) stay exact.
Scale == 2 ^ MaxIter

VARIABLES
    \* process
    proc,                \* "alive", "exit42", "exit43", "exitpc", "stopped"
    mainPc,              \* position of main()
    wpc,                 \* position of each worker thread
    reg,                 \* per-thread register of threadRunningCount++ / --
    \* globals (lines 154-158)
    trackedKeyCount, msgCount, lastLost, threadRunningCount, running,
    \* main's locals
    rpjiosKeys, zerowatchKeys,
    \* the Redis server's key space, restricted to the monitored names
    store,
    \* watchThreadFunc's locals and the messages it published
    last, perSec, curPerSec, timeIncr, reports,
    \* cmdThreadFunc's locals, its temporary connection and what was sent on it
    nextObj, sBuf, tempConn, sent,
    \* history, kept while a loop is being executed: what the loop did in
    \* iterations that ended after running had become false ("main" writes of
    \* lastLost, "watch" reports, "psub" counted messages, "cmd" handled
    \* messages), and under "kill" the killkillkill commands the command
    \* handler processed
    late

procVars  == <<proc, mainPc, wpc, reg>>
globals   == <<trackedKeyCount, msgCount, lastLost, threadRunningCount, running>>
mainVars  == <<rpjiosKeys, zerowatchKeys>>
watchVars == <<last, perSec, curPerSec, timeIncr, reports>>
cmdVars   == <<nextObj, sBuf, tempConn, sent>>
obsVars   == <<late>>
vars == <<procVars, globals, mainVars, store, watchVars, cmdVars, obsVars>>


\* ------------------------------------------------------------ C library
\* strncmp(a, b, n) == 0: compares at most n characters and stops at the
\* terminating NUL of either string (the empty string here).
RECURSIVE strncmpEq(_, _, _)
strncmpEq(a, b, n) ==
    IF n = 0 THEN TRUE
    ELSE IF a = "" /\ b = "" THEN TRUE
    ELSE IF a = "" \/ b = "" THEN FALSE
    ELSE IF Head(a) # Head(b) THEN FALSE
    ELSE strncmpEq(Tail(a), Tail(b), n - 1)

Digit(d) == SubSeq("0123456789", d + 1, d + 1)

RECURSIVE fmtNat(_)
fmtNat(n) == IF n < 10 THEN Digit(n) ELSE fmtNat(n \div 10) \o Digit(n % 10)

\* printf's %d conversion
fmtD(n) == IF n < 0 THEN "-" \o fmtNat(0 - n) ELSE fmtNat(n)

\* snprintf(buf, size, ...): at most size - 1 characters are stored
snprintf(size, s) == IF Len(s) >= size THEN SubSeq(s, 1, size - 1) ELSE s

\* --------------------------------------------------------- Redis objects
\* A RedisObject_t is {type, obj}; obj is NULL (isNull), a string (str) or an
\* array of objects (objects).
Elem(t, s) == [type |-> t, isNull |-> FALSE, str |-> s]
NilBulk    == [type |-> "BulkString", isNull |-> TRUE, str |-> ""]
IntElem    == [type |-> "Integer", isNull |-> FALSE, str |-> ""]
ArrayOf(seq) == [type |-> "Array", isNull |-> FALSE, str |-> "", objects |-> seq]
NullArray  == [type |-> "Array", isNull |-> TRUE, str |-> "", objects |-> <<>>]
BulkObj    == [type |-> "BulkString", isNull |-> FALSE, str |-> "PONG", objects |-> <<>>]
NoObj      == [type |-> "None", isNull |-> TRUE, str |-> "", objects |-> <<>>]

Bulk(s)    == Elem("BulkString", s)

\* Command names sent on the control channel: the three commands, two of
\* them also with trailing text, a proper prefix of one, an unknown one.
CommandNames ==
    {"message-count", "message-counter", "tracked-keys",
     "killkillkill", "killkillkill!", "noop", "message"}

\* What the server may deliver on a subscribed connection.
Messages ==
    {BulkObj, NullArray,
     ArrayOf(<<Bulk("message"), Bulk("spheremon:command")>>),
     ArrayOf(<<Bulk("subscribe"), Bulk("spheremon:command"), IntElem>>),
     ArrayOf(<<Bulk("message"), Bulk("spheremon:command"), NilBulk>>),
     ArrayOf(<<Bulk("pmessage"), Bulk("*"), Bulk("message-count"), Bulk("x")>>)}
    \cup {ArrayOf(<<Bulk("message"), Bulk("spheremon:command"), Bulk(n)>>) :
            n \in CommandNames}

\* On the wildcard subscription: the payload is never looked at.
ActivityMessages ==
    {BulkObj,
     ArrayOf(<<Bulk("psubscribe"), Bulk("*"), IntElem>>),
     ArrayOf(<<Bulk("pmessage"), Bulk("*"), Bulk("spheremon:watchthread"), Bulk("x")>>)}

\* ------------------------------------------------------------------ Init
\* The state at line 411 of main(): the LEDs are set up, the network is up,
\* main's own connection is open and both KEYS queries have answered with
\* the names then present; no thread has been created yet.
KeyLists == {[i \in 1..n |-> i] : n \in 1..(MaxKeys - 1)}

Init ==
    /\ proc = "alive"
    /\ mainPc = "set_tracked"
    /\ wpc = [w \in Workers |-> "none"]
    /\ reg = [w \in Workers |-> 0]
    /\ trackedKeyCount = 0
    /\ msgCount = 0
    /\ lastLost = 0
    /\ threadRunningCount = 0
    /\ running = TRUE
    /\ rpjiosKeys \in KeyLists
    /\ zerowatchKeys = [i \in 1..(MaxKeys - Len(rpjiosKeys)) |-> Len(rpjiosKeys) + i]
    /\ store = Keys
    /\ last = 0
    /\ perSec = 0
    /\ curPerSec = 0
    /\ timeIncr = 0
    /\ reports = <<>>
    /\ nextObj = NoObj
    /\ sBuf = ""
    /\ tempConn = "closed"
    /\ sent = <<>>
    /\ late = [k \in Loops |-> 0]

Alive == proc = "alive"

\* loop k completes an iteration: count it when running is false by then
Late(k) == [late EXCEPT ![k] = @ + (IF running THEN 0 ELSE 1)]
Goto(w, pc) == wpc' = [wpc EXCEPT ![w] = pc]

\* ---------------------------------------------------------- environment
\* A monitored key expires or is written again by its owner.  Only MainPoll
\* reads the store, so a change at any other moment is the same as one made
\* just before the next poll: changes are taken there.
StoreChange ==
    /\ Alive /\ mainPc = "poll"
    /\ \E k \in Keys :
         store' = IF k \in store THEN store \ {k} ELSE store \cup {k}
    /\ UNCHANGED <<procVars, globals, mainVars, watchVars, cmdVars>>
    /\ UNCHANGED obsVars

\* (mutant) the handler toggles the flag
sighand_Toggles ==
    /\ Alive
    /\ running' = ~running
    /\ UNCHANGED <<procVars, trackedKeyCount, msgCount, lastLost,
                   threadRunningCount, mainVars, store, watchVars, cmdVars>>
    /\ UNCHANGED obsVars

\* sighand(SIGTERM)
sighand ==
    /\ Alive
    /\ running' = FALSE
    /\ UNCHANGED <<procVars, trackedKeyCount, msgCount, lastLost,
                   threadRunningCount, mainVars, store, watchVars, cmdVars>>
    /\ UNCHANGED obsVars

\* ---------------------------------------------------------- newConnection
\* RedisConnect and the optional AUTH; either failing ends the process.
ConnectResults == {"ok", "exit42", "exit43"}

\* ----------------------------------------------------- worker life cycle
\* newConnection at the top of each thread function (then, for the two
\* subscribers, the SUBSCRIBE / PSUBSCRIBE on that connection).
WorkerConnect(w) ==
    /\ Alive /\ wpc[w] = "connect"
    /\ \E r \in ConnectResults :
         IF r = "ok"
         THEN Goto(w, "inc_load") /\ UNCHANGED proc
         ELSE proc' = r /\ UNCHANGED wpc
    /\ UNCHANGED <<mainPc, reg, globals, mainVars, store, watchVars, cmdVars>>
    /\ UNCHANGED obsVars

\* threadRunningCount++ on a plain int: a load ...
WorkerIncLoad(w) ==
    /\ Alive /\ wpc[w] = "inc_load"
    /\ reg' = [reg EXCEPT ![w] = threadRunningCount]
    /\ Goto(w, "inc_store")
    /\ UNCHANGED <<proc, mainPc, globals, mainVars, store, watchVars, cmdVars>>
    /\ UNCHANGED obsVars

\* ... and a store of the loaded value plus one.
WorkerIncStore(w) ==
    /\ Alive /\ wpc[w] = "inc_store"
    /\ threadRunningCount' = reg[w] + 1
    /\ reg' = [reg EXCEPT ![w] = 0]
    /\ Goto(w, "loop")
    /\ UNCHANGED <<proc, mainPc, trackedKeyCount, msgCount, lastLost, running,
                   mainVars, store, watchVars, cmdVars>>
    /\ UNCHANGED obsVars

\* --threadRunningCount after the loop: load ...
WorkerDecLoad(w) ==
    /\ Alive /\ wpc[w] = "dec_load"
    /\ reg' = [reg EXCEPT ![w] = threadRunningCount]
    /\ Goto(w, "dec_store")
    /\ UNCHANGED <<proc, mainPc, globals, mainVars, store, watchVars, cmdVars>>
    /\ UNCHANGED obsVars

\* ... and store; the thread function then returns.
WorkerDecStore(w) ==
    /\ Alive /\ wpc[w] = "dec_store"
    /\ threadRunningCount' = reg[w] - 1
    /\ reg' = [reg EXCEPT ![w] = 0]
    /\ Goto(w, "done")
    /\ UNCHANGED <<proc, mainPc, trackedKeyCount, msgCount, lastLost, running,
                   mainVars, store, watchVars, cmdVars>>
    /\ UNCHANGED obsVars

\* ------------------------------------------------------------------ main
\* (mutant) only the first list is counted
MainSetTracked_FirstListOnly ==
    /\ Alive /\ mainPc = "set_tracked"
    /\ trackedKeyCount' = Len(rpjiosKeys)
    /\ mainPc' = "create_psub"
    /\ UNCHANGED <<proc, wpc, reg, msgCount, lastLost, threadRunningCount,
                   running, mainVars, store, watchVars, cmdVars>>
    /\ UNCHANGED obsVars

\* line 412
MainSetTracked ==
    /\ Alive /\ mainPc = "set_tracked"
    /\ trackedKeyCount' = Len(rpjiosKeys) + Len(zerowatchKeys)
    /\ mainPc' = "create_psub"
    /\ UNCHANGED <<proc, wpc, reg, msgCount, lastLost, threadRunningCount,
                   running, mainVars, store, watchVars, cmdVars>>
    /\ UNCHANGED obsVars

\* pthread_create and the check of its result (lines 419-443): the new
\* thread starts at the top of its function, or the process exits.
MainCreate(w, here, next) ==
    /\ Alive /\ mainPc = here
    /\ \/ Goto(w, "connect") /\ mainPc' = next /\ UNCHANGED proc
       \/ proc' = "exitpc" /\ UNCHANGED <<mainPc, wpc>>
    /\ UNCHANGED <<reg, globals, mainVars, store, watchVars, cmdVars>>
    /\ UNCHANGED obsVars

\* (mutant) the barrier opens at two workers
MainBarrier_TwoWorkers ==
    /\ Alive /\ mainPc = "barrier"
    /\ ~(threadRunningCount < WORKER_TOTAL - 1)
    /\ mainPc' = "loop"
    /\ UNCHANGED <<proc, wpc, reg, globals, mainVars, store, watchVars, cmdVars>>
    /\ UNCHANGED obsVars

\* while (threadRunningCount < 3);
MainBarrier ==
    /\ Alive /\ mainPc = "barrier"
    /\ ~(threadRunningCount < WORKER_TOTAL)
    /\ mainPc' = "loop"
    /\ UNCHANGED <<proc, wpc, reg, globals, mainVars, store, watchVars, cmdVars>>
    /\ UNCHANGED obsVars

\* while (running) of the polling loop
MainLoop ==
    /\ Alive /\ mainPc = "loop"
    /\ mainPc' = IF running THEN "poll" ELSE "join_psub"
    /\ late' = IF running THEN late ELSE [late EXCEPT !["main"] = 0]
    /\ UNCHANGED <<proc, wpc, reg, globals, mainVars, store, watchVars, cmdVars>>

Redis_EXISTS(st, key) == key \in st

\* checkKeys: the loop over keys->objects, from index i with the tally so
\* far.  (Its assert that the list is not empty holds of every list Init
\* draws.)
RECURSIVE checkKeysFrom(_, _, _, _)
checkKeysFrom(st, keys, i, lostCount) ==
    IF i > Len(keys) THEN lostCount
    ELSE checkKeysFrom(st, keys, i + 1,
                       lostCount + (IF Redis_EXISTS(st, keys[i]) THEN 0 ELSE 1))

checkKeys(st, keys) == checkKeysFrom(st, keys, 1, 0)

\* (mutant) the tally is added to the one of the cycle before
MainPoll_Accumulates ==
    /\ Alive /\ mainPc = "poll"
    /\ lastLost' = lastLost + checkKeys(store, rpjiosKeys) + checkKeys(store, zerowatchKeys)
    /\ mainPc' = "loop"
    /\ UNCHANGED <<proc, wpc, reg, trackedKeyCount, msgCount, threadRunningCount,
                   running, mainVars, store, watchVars, cmdVars>>
    /\ late' = Late("main")

\* One cycle of the polling loop (lines 461-480): both key lists are checked,
\* the LEDs are driven from the tally, then the loop sleeps.
MainPoll ==
    /\ Alive /\ mainPc = "poll"
    /\ lastLost' = checkKeys(store, rpjiosKeys) + checkKeys(store, zerowatchKeys)
    /\ mainPc' = "loop"
    /\ UNCHANGED <<proc, wpc, reg, trackedKeyCount, msgCount, threadRunningCount,
                   running, mainVars, store, watchVars, cmdVars>>
    /\ late' = Late("main")

\* pthread_join(psubThread) then pthread_join(commandThread) (lines 484-485)
MainJoinPsub ==
    /\ Alive /\ mainPc = "join_psub"
    /\ wpc["psub"] = "done"
    /\ mainPc' = "join_cmd"
    /\ UNCHANGED <<proc, wpc, reg, globals, mainVars, store, watchVars, cmdVars>>
    /\ UNCHANGED obsVars

\* (mutant) main returns without joining the command thread
MainJoinCmd_NoWait ==
    /\ Alive /\ mainPc = "join_cmd"
    /\ mainPc' = "done"
    /\ proc' = "stopped"
    /\ UNCHANGED <<wpc, reg, globals, mainVars, store, watchVars, cmdVars>>
    /\ UNCHANGED obsVars

\* The second join; main then returns, which ends the process.
MainJoinCmd ==
    /\ Alive /\ mainPc = "join_cmd"
    /\ wpc["cmd"] = "done"
    /\ mainPc' = "done"
    /\ proc' = "stopped"
    /\ UNCHANGED <<wpc, reg, globals, mainVars, store, watchVars, cmdVars>>
    /\ UNCHANGED obsVars

\* -------------------------------------------------------- psubThreadFunc
\* (mutant) the activity loop does not test running
WorkerLoop_PsubForever(w) ==
    /\ Alive /\ wpc[w] = "loop"
    /\ \/ /\ running \/ w = "psub"
          /\ w = "watch" => timeIncr < MaxIter * SLEEP_TIME_SECONDS
          /\ Goto(w, "body")
          /\ UNCHANGED late
       \/ /\ ~running /\ w # "psub"
          /\ Goto(w, "dec_load")
          /\ late' = [k \in Loops |-> IF k = w \/ (w = "cmd" /\ k = "kill")
                                     THEN 0 ELSE late[k]]
    /\ UNCHANGED <<proc, mainPc, reg, globals, mainVars, store, watchVars, cmdVars>>

\* while (running) of a worker: into the body, or out to the decrement.
\* (The self-report loop is followed for MaxIter iterations.)
WorkerLoop(w) ==
    /\ Alive /\ wpc[w] = "loop"
    /\ \/ /\ running
          /\ w = "watch" => timeIncr < MaxIter * SLEEP_TIME_SECONDS
          /\ Goto(w, "body")
          /\ UNCHANGED late
       \/ /\ ~running
          /\ Goto(w, "dec_load")
          /\ late' = [k \in Loops |-> IF k = w \/ (w = "cmd" /\ k = "kill")
                                     THEN 0 ELSE late[k]]
    /\ UNCHANGED <<proc, mainPc, reg, globals, mainVars, store, watchVars, cmdVars>>

\* (mutant) the LED is pulsed whatever lastLost holds
Pulse_Always(lost) == TRUE

\* if (!lastLost): whether the green LED is pulsed (line 242)
Pulse(lost) == lost = 0

\* One message arrives on the wildcard subscription (lines 239-250): it is
\* freed unread; unless keys are lost the green LED is switched on, and
\* otherwise the message is counted at once.  (While running, MaxMsg
\* messages are followed; the one a blocked read needs to notice the
\* shutdown is always deliverable.)
PsubRecv ==
    /\ Alive /\ wpc["psub"] = "body"
    /\ running => msgCount < MaxMsg
    /\ \E m \in ActivityMessages :
         IF Pulse(lastLost)
         THEN Goto("psub", "pulse") /\ UNCHANGED <<msgCount, late>>
         ELSE /\ msgCount' = msgCount + 1
              /\ late' = Late("psub")
              /\ Goto("psub", "loop")
    /\ UNCHANGED <<proc, mainPc, reg, trackedKeyCount, lastLost,
                   threadRunningCount, running, mainVars, store, watchVars, cmdVars>>

\* The end of the pulse (lines 246-250): the LED is switched off and the
\* message is counted.
PsubPulseOff ==
    /\ Alive /\ wpc["psub"] = "pulse"
    /\ msgCount' = msgCount + 1
    /\ late' = Late("psub")
    /\ Goto("psub", "loop")
    /\ UNCHANGED <<proc, mainPc, reg, trackedKeyCount, lastLost,
                   threadRunningCount, running, mainVars, store, watchVars, cmdVars>>

\* ------------------------------------------------------- watchThreadFunc
\* count / SLEEP_TIME_SECONDS, as a multiple of 1 / (5 * Scale)
Rate(count) == count * Scale

\* lines 197-203, the rate of this interval
curPerSecNext(lst, cnt, cur) == IF lst = 0 THEN cur ELSE Rate(cnt - lst)

\* lines 197-203, the smoothed rate
perSecNext(lst, cnt, cur, per) ==
    IF lst = 0 THEN Rate(cnt) ELSE (curPerSecNext(lst, cnt, cur) + per) \div 2

\* the last argument of the snprintf (line 209)
Flag(cur, per) ==
    IF 2 * cur > 3 * per THEN "!>!"
    ELSE IF 2 * cur < per THEN "!<!" ELSE ""

\* the arguments of the snprintf (lines 207-209)
Report(t, cnt, lst, per, cur) ==
    [channel |-> "spheremon:watchthread", timeIncr |-> t, msgCount |-> cnt,
     last |-> lst, delta |-> cnt - lst, perSec |-> per, curPerSec |-> cur,
     flag |-> Flag(cur, per)]

\* (mutant) the first iteration publishes too
Publishes_Always(t) == TRUE

\* whether this iteration publishes (line 205)
Publishes(t) == t # 0

\* One iteration of the self-report loop (lines 197-220).
WatchIter ==
    /\ Alive /\ wpc["watch"] = "body"
    /\ curPerSec' = curPerSecNext(last, msgCount, curPerSec)
    /\ perSec' = perSecNext(last, msgCount, curPerSec, perSec)
    /\ reports' = IF Publishes(timeIncr)
                  THEN Append(reports, Report(timeIncr, msgCount, last, perSec', curPerSec'))
                  ELSE reports
    /\ last' = msgCount
    /\ timeIncr' = timeIncr + SLEEP_TIME_SECONDS
    /\ late' = IF Publishes(timeIncr) THEN Late("watch") ELSE late
    /\ Goto("watch", "loop")
    /\ UNCHANGED <<proc, mainPc, reg, globals, mainVars, store, cmdVars>>

\* --------------------------------------------------------- cmdThreadFunc
\* (mutant) arrays longer than three elements are accepted too
Actionable_AtLeast3(o) ==
    /\ o.type = "Array" /\ ~o.isNull
    /\ Len(o.objects) >= 3
    /\ o.objects[3].type = "BulkString" /\ ~o.objects[3].isNull

\* the two conditions at lines 271 and 274
Actionable(o) ==
    /\ o.type = "Array" /\ ~o.isNull
    /\ Len(o.objects) = 3
    /\ o.objects[3].type = "BulkString" /\ ~o.objects[3].isNull

NoResponse == [sBuf |-> "", sBufHasResp |-> FALSE, kill |-> FALSE]

\* (mutant) tracked-keys reports the lost keys in place of the live ones
Dispatch_LostForAlive(cmdStr, count, tracked, lost) ==
    IF strncmpEq("message-count", cmdStr, Len("message-count"))
    THEN [sBuf |-> snprintf(64, fmtD(count)), sBufHasResp |-> TRUE, kill |-> FALSE]
    ELSE IF strncmpEq("tracked-keys", cmdStr, Len("tracked-keys"))
    THEN [sBuf |-> snprintf(64, fmtD(lost) \o "/" \o fmtD(tracked)),
          sBufHasResp |-> TRUE, kill |-> FALSE]
    ELSE IF strncmpEq("killkillkill", cmdStr, Len("killkillkill"))
    THEN [sBuf |-> "", sBufHasResp |-> FALSE, kill |-> TRUE]
    ELSE NoResponse

\* (mutant) the kill branch leaves sBufHasResp set
Dispatch_KillResponds(cmdStr, count, tracked, lost) ==
    IF strncmpEq("message-count", cmdStr, Len("message-count"))
    THEN [sBuf |-> snprintf(64, fmtD(count)), sBufHasResp |-> TRUE, kill |-> FALSE]
    ELSE IF strncmpEq("tracked-keys", cmdStr, Len("tracked-keys"))
    THEN [sBuf |-> snprintf(64, fmtD(tracked - lost) \o "/" \o fmtD(tracked)),
          sBufHasResp |-> TRUE, kill |-> FALSE]
    ELSE IF strncmpEq("killkillkill", cmdStr, Len("killkillkill"))
    THEN [sBuf |-> "", sBufHasResp |-> TRUE, kill |-> TRUE]
    ELSE NoResponse

\* the if / else-if chain over cmdStr (lines 279-293)
Dispatch(cmdStr, count, tracked, lost) ==
    IF strncmpEq("message-count", cmdStr, Len("message-count"))
    THEN [sBuf |-> snprintf(64, fmtD(count)), sBufHasResp |-> TRUE, kill |-> FALSE]
    ELSE IF strncmpEq("tracked-keys", cmdStr, Len("tracked-keys"))
    THEN [sBuf |-> snprintf(64, fmtD(tracked - lost) \o "/" \o fmtD(tracked)),
          sBufHasResp |-> TRUE, kill |-> FALSE]
    ELSE IF strncmpEq("killkillkill", cmdStr, Len("killkillkill"))
    THEN [sBuf |-> "", sBufHasResp |-> FALSE, kill |-> TRUE]
    ELSE NoResponse

\* RedisConnection_getNextObject returns the delivered object m, which is
\* handled up to the test of sBufHasResp (lines 269-295).
CmdHandle(m) ==
    /\ Alive /\ wpc["cmd"] = "body"
    /\ LET d == IF Actionable(m)
                THEN Dispatch(m.objects[3].str, msgCount, trackedKeyCount, lastLost)
                ELSE NoResponse
       IN /\ running' = IF d.kill THEN FALSE ELSE running
          /\ sBuf' = d.sBuf
          /\ IF d.sBufHasResp
             THEN Goto("cmd", "temp_connect")
             ELSE Goto("cmd", "dealloc")
          /\ nextObj' = m
          /\ late' = [Late("cmd") EXCEPT !["kill"] = @ + (IF d.kill THEN 1 ELSE 0)]
    /\ UNCHANGED <<proc, mainPc, reg, trackedKeyCount, msgCount, lastLost,
                   threadRunningCount, mainVars, store, watchVars, tempConn, sent>>

\* RedisObject_dealloc(nextObj) at the end of an iteration that sent no
\* response (line 317)
CmdDealloc ==
    /\ Alive /\ wpc["cmd"] = "dealloc"
    /\ nextObj' = NoObj
    /\ Goto("cmd", "loop")
    /\ UNCHANGED <<proc, mainPc, reg, globals, mainVars, store, watchVars,
                   sBuf, tempConn, sent>>
    /\ UNCHANGED obsVars

\* chanName (lines 297-300)
chanName(cmdStr) ==
    snprintf(Len("spheremon:command:result:") + Len(cmdStr) + 1,
             "spheremon:command:result:" \o cmdStr)

\* A command sent on the temporary connection and what the code saw of its
\* reply: "ok", "failed", or "unread" when the result is dropped.
Command(op, key, value, reply) ==
    [op |-> op, key |-> key, value |-> value, reply |-> reply]

\* Redis_SET on the temporary connection; a failure is only printed
\* (lines 304-305)
CmdSet(conn, key, value, reply) == Append(conn, Command("SET", key, value, reply))

\* (mutant) nothing is published once the SET has failed
CmdPublish_NotAfterFailedSet(conn, key, value) ==
    IF conn[Len(conn)].reply = "failed"
    THEN conn
    ELSE Append(conn, Command("PUBLISH", key, value, "unread"))

\* Redis_PUBLISH on the temporary connection, its result dropped (line 306)
CmdPublish(conn, key, value) == Append(conn, Command("PUBLISH", key, value, "unread"))

\* The response (lines 297-306): newConnection, which ends the process when
\* it fails (the handler's locals go with it), then SET, then PUBLISH.
CmdRespond ==
    /\ Alive /\ wpc["cmd"] = "temp_connect"
    /\ \E r \in ConnectResults :
         IF r = "ok"
         THEN /\ tempConn' = "open"
              /\ \E reply \in {"ok", "failed"} :
                   LET name == chanName(nextObj.objects[3].str)
                   IN sent' = CmdPublish(CmdSet(sent, name, sBuf, reply), name, sBuf)
              /\ Goto("cmd", "close")
              /\ UNCHANGED <<proc, nextObj, sBuf>>
         ELSE /\ proc' = r /\ nextObj' = NoObj /\ sBuf' = ""
              /\ UNCHANGED <<wpc, tempConn, sent>>
    /\ UNCHANGED <<mainPc, reg, globals, mainVars, store, watchVars>>
    /\ UNCHANGED obsVars

\* (mutant) the temporary connection is not closed
CmdClose_Leaks ==
    /\ Alive /\ wpc["cmd"] = "close"
    /\ tempConn' = tempConn
    /\ sent' = <<>>
    /\ sBuf' = ""
    /\ nextObj' = NoObj
    /\ Goto("cmd", "loop")
    /\ UNCHANGED <<proc, mainPc, reg, globals, mainVars, store, watchVars>>
    /\ UNCHANGED obsVars

\* close(tempConn), free(chanName), RedisObject_dealloc (lines 308-317);
\* sent is the traffic of the connection being closed.
CmdClose ==
    /\ Alive /\ wpc["cmd"] = "close"
    /\ tempConn' = "closed"
    /\ sent' = <<>>
    /\ sBuf' = ""
    /\ nextObj' = NoObj
    /\ Goto("cmd", "loop")
    /\ UNCHANGED <<proc, mainPc, reg, globals, mainVars, store, watchVars>>
    /\ UNCHANGED obsVars

\* ------------------------------------------------------------------ Next
Next ==
    \/ StoreChange
    \/ sighand
    \/ MainSetTracked
    \/ MainCreate("psub", "create_psub", "create_cmd")
    \/ MainCreate("cmd", "create_cmd", "create_watch")
    \/ MainCreate("watch", "create_watch", "barrier")
    \/ MainBarrier
    \/ MainLoop
    \/ MainPoll
    \/ MainJoinPsub
    \/ MainJoinCmd
    \/ \E w \in Workers :
         \/ WorkerConnect(w)
         \/ WorkerIncLoad(w)
         \/ WorkerIncStore(w)
         \/ WorkerLoop(w)
         \/ WorkerDecLoad(w)
         \/ WorkerDecStore(w)
    \/ PsubRecv
    \/ PsubPulseOff
    \/ WatchIter
    \/ \E m \in Messages : CmdHandle(m)
    \/ CmdDealloc
    \/ CmdRespond
    \/ CmdClose

Spec == Init /\ [][Next]_vars

\* ------------------------------------------------------------- scheduling
\* The steps a thread takes on its own: everything but the return of a
\* blocking read on a subscription.
MainStep ==
    \/ MainSetTracked
    \/ MainCreate("psub", "create_psub", "create_cmd")
    \/ MainCreate("cmd", "create_cmd", "create_watch")
    \/ MainCreate("watch", "create_watch", "barrier")
    \/ MainBarrier
    \/ MainLoop
    \/ MainPoll
    \/ MainJoinPsub
    \/ MainJoinCmd

WorkerStep(w) ==
    \/ WorkerConnect(w)
    \/ WorkerIncLoad(w)
    \/ WorkerIncStore(w)
    \/ WorkerLoop(w)
    \/ WorkerDecLoad(w)
    \/ WorkerDecStore(w)
    \/ w = "watch" /\ WatchIter
    \/ w = "psub" /\ PsubPulseOff
    \/ w = "cmd" /\ (CmdDealloc \/ CmdRespond \/ CmdClose)

\* Every thread that can run is run: the four threads are scheduled by the
\* kernel, the sleeps are finite, connect / SET / PUBLISH return.
FairSpec ==
    /\ Spec
    /\ WF_vars(MainStep)
    /\ \A w \in Workers : WF_vars(WorkerStep(w))

\* ... and a message arrives on each subscription that is being read.
DeliverySpec ==
    /\ FairSpec
    /\ WF_vars(PsubRecv)
    /\ WF_vars(\E m \in Messages : CmdHandle(m))

\* ======================================================================
\* Properties
\* ======================================================================
\* Reading a response back: the value a string of decimal digits denotes.
DigitChars == "0123456789"
IsDigit(c) == \E d \in 0..9 : SubSeq(DigitChars, d + 1, d + 1) = c
DigitValue(c) == CHOOSE d \in 0..9 : SubSeq(DigitChars, d + 1, d + 1) = c

RECURSIVE ParseNat(_, _)
ParseNat(s, acc) ==
    IF s = "" THEN acc ELSE ParseNat(Tail(s), 10 * acc + DigitValue(SubSeq(s, 1, 1)))

\* s is the decimal numeral of the natural number n
IsDecimalOf(s, n) ==
    /\ Len(s) >= 1
    /\ \A i \in 1..Len(s) : IsDigit(SubSeq(s, i, i))
    /\ Len(s) > 1 => SubSeq(s, 1, 1) # "0"
    /\ ParseNat(s, 0) = n

\* s is "<a>/<t>"
IsFractionOf(s, a, t) ==
    \E i \in 1..Len(s) :
        /\ SubSeq(s, i, i) = "/"
        /\ IsDecimalOf(SubSeq(s, 1, i - 1), a)
        /\ IsDecimalOf(SubSeq(s, i + 1, Len(s)), t)

BeginsWith(s, p) == Len(s) >= Len(p) /\ SubSeq(s, 1, Len(p)) = p

\* a 3-element array whose third element is a non-null string
WellFormed(m) ==
    /\ m.type = "Array" /\ ~m.isNull /\ Len(m.objects) = 3
    /\ m.objects[3].type = "BulkString" /\ ~m.objects[3].isNull

NameOf(m) == m.objects[3].str

IsMessageCount(m) == WellFormed(m) /\ BeginsWith(NameOf(m), "message-count")
IsTrackedKeys(m)  == WellFormed(m) /\ ~IsMessageCount(m)
                     /\ BeginsWith(NameOf(m), "tracked-keys")
IsKill(m)         == WellFormed(m) /\ ~IsMessageCount(m) /\ ~IsTrackedKeys(m)
                     /\ BeginsWith(NameOf(m), "killkillkill")
IsDiscarded(m)    == ~IsMessageCount(m) /\ ~IsTrackedKeys(m) /\ ~IsKill(m)

\* the command handler takes a delivered object and handles it
Handles == wpc["cmd"] = "body" /\ wpc'["cmd"] # "body"

ResultName(m) == "spheremon:command:result:" \o NameOf(m)

\* C1: an actionable message whose name begins with "message-count" gets
\* the decimal numeral of msgCount as response; otherwise one whose name
\* begins with "tracked-keys" gets "<trackedKeyCount - lastLost>/<trackedKeyCount>".
C1_Dispatch ==
    [][Handles =>
        /\ IsMessageCount(nextObj') =>
              /\ wpc'["cmd"] = "temp_connect"
              /\ IsDecimalOf(sBuf', msgCount)
        /\ IsTrackedKeys(nextObj') =>
              /\ wpc'["cmd"] = "temp_connect"
              /\ IsFractionOf(sBuf', trackedKeyCount - lastLost, trackedKeyCount)
        /\ wpc'["cmd"] = "temp_connect" =>
              IsMessageCount(nextObj') \/ IsTrackedKeys(nextObj')]_vars

\* a "tracked-keys" command is being answered "1/2" while one message has
\* been counted
C1_Witness ==
    /\ Alive /\ wpc["cmd"] = "temp_connect"
    /\ WellFormed(nextObj) /\ NameOf(nextObj) = "tracked-keys"
    /\ sBuf = "1/2"
    /\ msgCount = 1

\* C2: handling killkillkill sets running to false, opens no temporary
\* connection, sends no SET or PUBLISH, and changes no other counter.
C2_Kill ==
    [][Handles /\ IsKill(nextObj') =>
        /\ running' = FALSE
        /\ wpc'["cmd"] = "dealloc"
        /\ tempConn' = "closed" /\ sent' = <<>> /\ sBuf' = ""
        /\ UNCHANGED <<msgCount, lastLost, trackedKeyCount, threadRunningCount,
                       tempConn, sent, proc>>]_vars

\* a kill command with trailing text has been handled while running was true
\* at the last look of the polling loop
C2_Witness ==
    /\ wpc["cmd"] = "dealloc"
    /\ WellFormed(nextObj) /\ NameOf(nextObj) = "killkillkill!"
    /\ ~running
    /\ mainPc = "poll"

\* C3: a malformed message, or a well-formed one naming no command, is
\* dropped: nothing shared changes, nothing is connected or sent, and the
\* handler goes back to the head of its loop.
C3_Discard ==
    /\ [][Handles /\ IsDiscarded(nextObj') =>
            /\ wpc'["cmd"] = "dealloc"
            /\ sBuf' = ""
            /\ UNCHANGED <<running, msgCount, lastLost, trackedKeyCount,
                           threadRunningCount, tempConn, sent, proc>>]_vars
    /\ [][wpc["cmd"] = "dealloc" /\ wpc'["cmd"] # "dealloc" =>
            /\ wpc'["cmd"] = "loop"
            /\ UNCHANGED <<running, msgCount, lastLost, trackedKeyCount,
                           threadRunningCount, tempConn, sent, proc>>]_vars

\* an array of three elements whose third is an integer has been dropped
\* while running
C3_Witness ==
    /\ wpc["cmd"] = "dealloc"
    /\ nextObj.type = "Array" /\ Len(nextObj.objects) = 3
    /\ nextObj.objects[3].type = "Integer"
    /\ running /\ tempConn = "closed" /\ sent = <<>>

\* C4: a response is sent as SET of "spheremon:command:result:<name>" and
\* then PUBLISH of the same value under the same name, whatever the SET
\* replied.
C4_SetThenPublish ==
    /\ [](tempConn = "open" =>
            /\ wpc["cmd"] = "close"
            /\ Len(sent) = 2
            /\ sent[1].op = "SET" /\ sent[2].op = "PUBLISH"
            /\ sent[1].key = ResultName(nextObj) /\ sent[2].key = sent[1].key
            /\ sent[1].value = sBuf /\ sent[2].value = sent[1].value)
    /\ [][wpc["cmd"] = "temp_connect" /\ wpc'["cmd"] # "temp_connect" =>
            tempConn' = "open"]_vars

\* the SET of a "message-counter" response failed and the PUBLISH was sent
C4_Witness ==
    /\ wpc["cmd"] = "close"
    /\ WellFormed(nextObj) /\ NameOf(nextObj) = "message-counter"
    /\ sent[1].reply = "failed"
    /\ sent[2].op = "PUBLISH" /\ sent[2].key = "spheremon:command:result:message-counter"
    /\ sent[2].value = "1"

\* the keys of list K that the store does not hold
NumAbsent(K) == Cardinality({i \in 1..Len(K) : K[i] \notin store})

\* every list of distinct key names
AllKeyLists ==
    {K \in UNION {[1..n -> Keys] : n \in 1..MaxKeys} :
        \A i, j \in 1..Len(K) : K[i] = K[j] => i = j}

Polls == mainPc = "poll" /\ mainPc' = "loop"

\* C5: checkKeys returns the number of keys of its list absent from the
\* store, between 0 and the length of the list; every poll cycle writes the
\* count for the store as it is, whatever lastLost held before.
C5_LostCount ==
    /\ [](\A K \in AllKeyLists :
            /\ checkKeys(store, K) = NumAbsent(K)
            /\ checkKeys(store, K) \in 0..Len(K))
    /\ [][Polls => lastLost' = NumAbsent(rpjiosKeys) + NumAbsent(zerowatchKeys)]_vars
    /\ [][Polls /\ lastLost = NumAbsent(rpjiosKeys) + NumAbsent(zerowatchKeys)
            => lastLost' = lastLost]_vars

\* both keys are gone and a poll cycle has counted two lost keys
C5_Witness ==
    /\ mainPc = "loop" /\ running
    /\ store = {}
    /\ lastLost = MaxKeys

\* C6 (as claimed): the first report carries (c1 - c0) / 5 and every later
\* one ((c(i+1) - ci) / 5 + r(i-1)) / 2, the counts being the ones printed
\* in the report.
C6_Recurrence ==
    \A i \in 1..Len(reports) :
        IF i = 1
        THEN reports[i].perSec = Rate(reports[i].delta)
        ELSE 2 * reports[i].perSec = Rate(reports[i].delta) + reports[i - 1].perSec

\* C7 (as claimed): in every report "!>!" is printed exactly when the rate of
\* the interval exceeds 1.5 times the smoothed rate, "!<!" exactly when it is
\* below half of it.
C7_Flags ==
    \A i \in 1..Len(reports) :
        LET r == reports[i]
            inst == Rate(r.delta)
        IN /\ r.flag = "!>!" <=> 2 * inst > 3 * r.perSec
           /\ r.flag = "!<!" <=> 2 * inst < r.perSec

Iterates == wpc["watch"] = "body" /\ wpc'["watch"] # "body"

Started(w) == wpc[w] \notin {"none", "connect", "inc_load", "inc_store"}
PastBarrier == mainPc \in {"loop", "poll", "join_psub", "join_cmd", "done"}

\* C9: main is past the barrier only when each of the three workers has
\* connected and incremented threadRunningCount; a worker that cannot
\* connect ends the process.
C9_Barrier ==
    /\ [](PastBarrier => \A w \in Workers : Started(w))
    /\ [][\A w \in Workers :
            wpc[w] = "connect" /\ wpc'[w] # "connect" => Alive' /\ wpc'[w] = "inc_load"]_vars

\* main polls with the three workers in their loops
C9_Witness ==
    /\ mainPc = "poll"
    /\ \A w \in Workers : wpc[w] = "body"
    /\ threadRunningCount = WORKER_TOTAL

Stopped == proc = "stopped"

\* C10 (as claimed): once the activity thread has exited, main is not held
\* back by the command thread.
C10_NoWaitOnCommand ==
    ~(Alive /\ mainPc = "join_cmd" /\ wpc["psub"] = "done" /\ wpc["cmd"] = "body")

\* C10 (amended): main is Stopped only after the activity thread and the
\* command thread have both exited.
C10_StoppedAfterJoins ==
    Stopped => wpc["psub"] = "done" /\ wpc["cmd"] = "done"

\* main is Stopped while the self-report thread, which it does not join,
\* is still in its loop
C10_Witness ==
    /\ Stopped
    /\ wpc["psub"] = "done" /\ wpc["cmd"] = "done"
    /\ wpc["watch"] = "body"

\* C11 (as claimed): once running is false in steady state, with messages
\* delivered on both subscriptions, every worker leaves its loop and
\* decrements threadRunningCount, and main reaches Stopped.
C11_ShutdownCompletes ==
    (PastBarrier /\ Alive /\ ~running) ~> (Stopped /\ \A w \in Workers : wpc[w] = "done")

\* C12: once running is false no loop starts an iteration, and each loop
\* completes at most one: at most one more write of lastLost, one more
\* report, one more counted message, one more handled message, and no
\* handled message after the handler's own killkillkill.
C12_AtMostOneMore ==
    /\ [](\A k \in {"main", "watch", "psub", "cmd"} : late[k] <= 1)
    /\ [][Handles => late["kill"] = 0]_vars
    /\ [][~running =>
            /\ mainPc = "loop" => mainPc' # "poll"
            /\ \A w \in Workers : wpc[w] = "loop" => wpc'[w] # "body"]_vars

\* all four loops are back at their heads, each having completed its one
\* iteration after running became false
C12_Witness ==
    /\ Alive /\ ~running
    /\ mainPc = "loop" /\ \A w \in Workers : wpc[w] = "loop"
    /\ \A k \in {"main", "watch", "psub", "cmd"} : late[k] = 1

\* the step is the SIGTERM handler: nothing but running is touched
IsSignal == UNCHANGED <<procVars, trackedKeyCount, msgCount, lastLost,
                        threadRunningCount, mainVars, store, watchVars, cmdVars, late>>

\* C13: running starts true; it is only ever changed from true to false,
\* and only by the command handler processing killkillkill or by the
\* SIGTERM handler.
C13_OneWayFlag ==
    /\ running = TRUE
    /\ [][running' # running =>
            /\ running /\ ~running'
            /\ \/ Handles /\ IsKill(nextObj')
               \/ IsSignal]_vars
    /\ [][~running => ~running']_vars

\* the command handler has processed killkillkill after SIGTERM had already
\* cleared the flag, and the flag is still false
C13_Witness ==
    /\ ~running
    /\ wpc["cmd"] = "dealloc" /\ IsKill(nextObj)
    /\ late["cmd"] = 1 /\ late["kill"] = 1

\* C14: SET and PUBLISH go out only on the temporary connection, opened in
\* the step that sends them while no other one is open; the connection is
\* closed when the handler leaves the response, so every read of a next
\* message finds it closed; when newConnection fails the process ends and
\* nothing more is read.
C14_TemporaryConnection ==
    /\ [](tempConn \in {"closed", "open"})
    /\ [](tempConn = "open" => wpc["cmd"] = "close")
    /\ [](sent # <<>> => tempConn = "open")
    /\ [][sent' # sent /\ sent' # <<>> =>
            /\ wpc["cmd"] = "temp_connect"
            /\ tempConn = "closed" /\ tempConn' = "open"]_vars
    /\ [][wpc["cmd"] = "close" /\ wpc'["cmd"] # "close" =>
            tempConn' = "closed" /\ sent' = <<>>]_vars
    /\ [][Handles => Alive /\ tempConn = "closed"]_vars
    /\ [](~Alive => ~ENABLED (\E m \in Messages : CmdHandle(m)))

\* the temporary connection of a "tracked-keys" response is open, its SET
\* has failed and its PUBLISH is out, after running became false
C14_Witness ==
    /\ Alive /\ ~running
    /\ wpc["cmd"] = "close" /\ tempConn = "open"
    /\ WellFormed(nextObj) /\ NameOf(nextObj) = "tracked-keys"
    /\ Len(sent) = 2 /\ sent[1].reply = "failed"

\* C15 (as claimed): once startup has completed the process is only ever
\* ended by a shutdown (main returning after the kill command or SIGTERM),
\* never by an exit.
C15_SteadyStateKeepsRunning ==
    PastBarrier => proc \in {"alive", "stopped"}

\* the green LED is on
GreenOn == wpc["psub"] = "pulse"

Receives == wpc["psub"] = "body" /\ wpc'["psub"] # "body"

\* C16: each message delivered on the wildcard subscription switches the
\* green LED on, then off, exactly when lastLost is 0 at its arrival, and
\* adds exactly 1 to msgCount; nothing else changes msgCount, which never
\* decreases.
C16_ActivityStep ==
    /\ [][Receives =>
            /\ GreenOn' <=> lastLost = 0
            /\ GreenOn' => msgCount' = msgCount
            /\ ~GreenOn' => wpc'["psub"] = "loop" /\ msgCount' = msgCount + 1]_vars
    /\ [][GreenOn /\ wpc'["psub"] # "pulse" =>
            wpc'["psub"] = "loop" /\ msgCount' = msgCount + 1]_vars
    /\ [][~GreenOn /\ GreenOn' => Receives]_vars
    /\ [][msgCount' # msgCount =>
            /\ msgCount' = msgCount + 1
            /\ wpc["psub"] \in {"body", "pulse"} /\ wpc'["psub"] = "loop"]_vars

\* one message has been counted; a second one, which the blocked read got
\* after running became false, has arrived with no key lost and the LED is on
C16_Witness ==
    /\ Alive /\ GreenOn
    /\ lastLost = 0
    /\ msgCount = 1
    /\ late["psub"] = 0 /\ ~running

\* worker w has done its increment and not yet started its decrement
Active(w) == Started(w) /\ wpc[w] \notin {"dec_store", "done"}
Updating(w) == wpc[w] \in {"inc_store", "dec_store"}

\* C17 (as claimed): threadRunningCount is always in 0..3 and, whenever no
\* worker is in the middle of an update, is the number of workers that have
\* signalled startup and not exited.
C17_CountExact ==
    /\ threadRunningCount \in 0..WORKER_TOTAL
    /\ (\A w \in Workers : ~Updating(w)) =>
          threadRunningCount = Cardinality({w \in Workers : Active(w)})

\* C18 (as claimed): main does not stay in the busy-wait at line 446: it
\* gets past it, unless the process is ended by a failed connect.
C18_BarrierTerminates ==
    (Alive /\ mainPc = "barrier") ~> (mainPc # "barrier" \/ ~Alive)

\* C19 (as claimed): when main has returned every worker has left its
\* loop and done its decrement, and threadRunningCount is 0.
C19_AllExitedAtStopped ==
    Stopped => /\ \A w \in Workers : wpc[w] = "done"
               /\ threadRunningCount = 0

\* main has not yet entered its polling loop
BeforeFirstPoll ==
    mainPc \in {"set_tracked", "create_psub", "create_cmd", "create_watch", "barrier"}

=============================================================================
